---------------------------- MODULE Spec2Model ----------------------------
(***************************************************************************)
(* Floating point matchers (WithinAbs, WithinRel, WithinULP) and the ULP   *)
(* distance they are built on.                                             *)
(*                                                                         *)
(* Floating point values are IEEE-754 bit patterns: 1 sign bit, an         *)
(* exponent field and a mantissa field, with denormals, signed zeros,      *)
(* infinities and NaNs.  The field widths are scaled down so that every    *)
(* bit pattern can be enumerated; the relations between the widths that    *)
(* the code relies on are kept: int64_t is as wide as double, uint32_t is  *)
(* as wide as float, and every float is a double.                          *)
(***************************************************************************)
EXTENDS Integers, Naturals, Sequences, FiniteSets, TLC

(* Width of the exponent and of the mantissa field of a double. *)
ExpBits == 3
ManBits == 1

RECURSIVE Pow2Rec(_)
Pow2Rec(n) == IF n <= 0 THEN 1 ELSE 2 * Pow2Rec(n - 1)
Pow2Table == [n \in 0 .. 30 |-> Pow2Rec(n)] @@ <<>>
Pow2(n) == Pow2Table[n]

Abs(i) == IF i < 0 THEN -i ELSE i

(***************************************************************************)
(* IEEE-754 layouts.  K is a Detail::FloatingPointKind.                    *)
(***************************************************************************)
FloatingPointKind == {"Float", "Double"}

ExpW(K) == IF K = "Double" THEN ExpBits ELSE ExpBits - 1
ManW(K) == ManBits
Width(K) == 1 + ExpW(K) + ManW(K)
Bias(K) == Pow2(ExpW(K) - 1) - 1

Patterns(K) == 0 .. (Pow2(Width(K)) - 1)
SignBit(K) == Pow2(Width(K) - 1)

Sign(K, x) == x \div SignBit(K)
Expo(K, x) == (x \div Pow2(ManW(K))) % Pow2(ExpW(K))
Mant(K, x) == x % Pow2(ManW(K))

(* +infinity, the largest finite value, the smallest denormal, 1.0, a quiet NaN *)
INFINITY(K) == (Pow2(ExpW(K)) - 1) * Pow2(ManW(K))
MaxFinite(K) == INFINITY(K) - 1
denorm_min(K) == 1
One(K) == Bias(K) * Pow2(ManW(K))
QNaN(K) == INFINITY(K) + Pow2(ManW(K) - 1)

fneg(K, x) == (x + SignBit(K)) % Pow2(Width(K))
fabs(K, x) == x % SignBit(K)

(***************************************************************************)
(* The class and the magnitude of a pattern.  The magnitude of a non-NaN   *)
(* pattern is a multiple of the smallest double denormal.  An infinity     *)
(* gets the value its exponent field would have as a normal exponent,      *)
(* which is above every finite value and is the value IEEE-754 rounds      *)
(* against on overflow.                                                    *)
(***************************************************************************)
Shift(K) == (Bias("Double") - Bias(K)) + (ManBits - ManW(K))

ClassOf(K, x) ==
    IF Expo(K, x) # Pow2(ExpW(K)) - 1 THEN "finite"
    ELSE IF Mant(K, x) = 0 THEN "inf" ELSE "nan"

MagOf(K, x) ==
    LET e == Expo(K, x)
        sig == Mant(K, x) + (IF e = 0 THEN 0 ELSE Pow2(ManW(K)))
    IN  sig * Pow2((IF e = 0 THEN 1 ELSE e) - 1 + Shift(K))

(* both, tabulated once for every pattern of every layout *)
AllPatterns == UNION {{<<K, x>> : x \in Patterns(K)} : K \in FloatingPointKind}
ClassTable == [k \in AllPatterns |-> ClassOf(k[1], k[2])] @@ <<>>
MagTable == [k \in AllPatterns |-> MagOf(k[1], k[2])] @@ <<>>
ValTable == [k \in AllPatterns |->
                IF Sign(k[1], k[2]) = 1 THEN -MagOf(k[1], k[2])
                ELSE MagOf(k[1], k[2])] @@ <<>>

isnan(K, x) == ClassTable[<<K, x>>] = "nan"
isinf(K, x) == ClassTable[<<K, x>>] = "inf"
isfinite(K, x) == ClassTable[<<K, x>>] = "finite"
Mag(K, x) == MagTable[<<K, x>>]
Val(K, x) == ValTable[<<K, x>>]

(* The comparison operators of the language: false when an operand is NaN. *)
fpLT(K, a, b) == ~isnan(K, a) /\ ~isnan(K, b) /\ Val(K, a) < Val(K, b)
fpGT(K, a, b) == ~isnan(K, a) /\ ~isnan(K, b) /\ Val(K, a) > Val(K, b)
fpEQ(K, a, b) == ~isnan(K, a) /\ ~isnan(K, b) /\ Val(K, a) = Val(K, b)
fpGE(K, a, b) == ~isnan(K, a) /\ ~isnan(K, b) /\ Val(K, a) >= Val(K, b)

(***************************************************************************)
(* Round the non-negative rational num/den (in units of the smallest       *)
(* double denormal) to the nearest value of layout K, ties to the even     *)
(* mantissa, overflowing to infinity.                                      *)
(***************************************************************************)
RoundTo(K, negative, num, den) ==
    LET lo == CHOOSE p \in 0 .. INFINITY(K) :
                  /\ Mag(K, p) * den <= num
                  /\ (p = INFINITY(K) \/ Mag(K, p + 1) * den > num)
        dl == num - Mag(K, lo) * den
        dh == Mag(K, lo + 1) * den - num
        r  == IF lo = INFINITY(K) THEN lo
              ELSE IF dl < dh THEN lo
              ELSE IF dl > dh THEN lo + 1
              ELSE IF lo % 2 = 0 THEN lo ELSE lo + 1
    IN  r + (IF negative THEN SignBit(K) ELSE 0)

(* double + double *)
AddDouble(a, b) ==
    LET K == "Double"
        s == Val(K, a) + Val(K, b)
    IN  IF isnan(K, a) \/ isnan(K, b) THEN QNaN(K)
        ELSE IF isinf(K, a) /\ isinf(K, b) THEN (IF a = b THEN a ELSE QNaN(K))
        ELSE IF isinf(K, a) THEN a
        ELSE IF isinf(K, b) THEN b
        ELSE IF s = 0 THEN (IF Sign(K, a) = 1 /\ Sign(K, b) = 1 THEN SignBit(K) ELSE 0)
        ELSE RoundTo(K, s < 0, Abs(s), 1)

(***************************************************************************)
(* double * double.  The exact product is sa * sb * 2^(xa + xb) smallest   *)
(* denormals squared, with s the significands and x the exponents; it is   *)
(* rounded as the rational it is, and is infinite as soon as its power of  *)
(* two alone reaches the magnitude of infinity.                            *)
(***************************************************************************)
MulDouble(a, b) ==
    LET K == "Double"
        negative == Sign(K, a) # Sign(K, b)
        sign == IF negative THEN SignBit(K) ELSE 0
        xa == (IF Expo(K, a) = 0 THEN 1 ELSE Expo(K, a)) - 1
        xb == (IF Expo(K, b) = 0 THEN 1 ELSE Expo(K, b)) - 1
        sa == Mant(K, a) + (IF Expo(K, a) = 0 THEN 0 ELSE Pow2(ManBits))
        sb == Mant(K, b) + (IF Expo(K, b) = 0 THEN 0 ELSE Pow2(ManBits))
        s  == xa + xb - (Bias(K) - 1 + ManBits)
    IN  IF isnan(K, a) \/ isnan(K, b) THEN QNaN(K)
        ELSE IF isinf(K, a) \/ isinf(K, b)
             THEN (IF Mag(K, a) = 0 \/ Mag(K, b) = 0 THEN QNaN(K)
                   ELSE INFINITY(K) + sign)
        ELSE IF sa * sb = 0 THEN sign
        ELSE IF s >= ManBits + Pow2(ExpBits) - 2 THEN INFINITY(K) + sign
        ELSE RoundTo(K, negative, sa * sb * Pow2(IF s > 0 THEN s ELSE 0),
                     Pow2(IF s < 0 THEN -s ELSE 0))

(* both, tabulated once *)
DoublePairs == Patterns("Double") \X Patterns("Double")
AddTable == [p \in DoublePairs |-> AddDouble(p[1], p[2])] @@ <<>>
MulTable == [p \in DoublePairs |-> MulDouble(p[1], p[2])] @@ <<>>
fadd(a, b) == AddTable[<<a, b>>]
fmul(a, b) == MulTable[<<a, b>>]

(* std::max on doubles *)
fmax(a, b) == IF fpLT("Double", a, b) THEN b ELSE a

(* static_cast<float>(double): rounds to the nearest float *)
NarrowToFloat(d) ==
    LET s == IF Sign("Double", d) = 1 THEN SignBit("Float") ELSE 0
    IN  IF isnan("Double", d) THEN QNaN("Float") + s
        ELSE IF isinf("Double", d) THEN INFINITY("Float") + s
        ELSE RoundTo("Float", Sign("Double", d) = 1, Mag("Double", d), 1)

(* the implicit conversion float -> double: exact *)
WidenToDouble(f) ==
    LET s == IF Sign("Float", f) = 1 THEN SignBit("Double") ELSE 0
    IN  IF isnan("Float", f) THEN QNaN("Double") + s
        ELSE IF isinf("Float", f) THEN INFINITY("Double") + s
        ELSE RoundTo("Double", Sign("Float", f) = 1, Mag("Float", f), 1)

(* both, tabulated once *)
NarrowTable == [d \in Patterns("Double") |-> NarrowToFloat(d)] @@ <<>>
WidenTable == [f \in Patterns("Float") |-> WidenToDouble(f)] @@ <<>>
toFloat(d) == NarrowTable[d]
toDouble(f) == WidenTable[f]

(***************************************************************************)
(* The integer types.  int64_t is as wide as double and uint32_t as wide   *)
(* as float (the static_asserts of convert).                               *)
(***************************************************************************)
INT64_MAX == Pow2(Width("Double") - 1) - 1
INT64_MIN == -INT64_MAX - 1
UINT64_MAX == Pow2(Width("Double")) - 1
UINT32_MAX == Pow2(Width("Float")) - 1
Int64 == INT64_MIN .. INT64_MAX

(* convert: the signed integer with the bit pattern of the value *)
convert(K, x) == IF x >= SignBit(K) THEN x - Pow2(Width(K)) ELSE x

(***************************************************************************)
(* int64_t arithmetic.  Signed overflow is undefined: an operation on sets *)
(* of possible operand values gives the set of possible results, which is  *)
(* every int64_t once a result does not fit.                               *)
(***************************************************************************)
neg64(S) == IF \E x \in S : -x \notin Int64 THEN Int64 ELSE {-x : x \in S}
abs64(S) == IF \E x \in S : Abs(x) \notin Int64 THEN Int64 ELSE {Abs(x) : x \in S}
add64(S, T) == IF \E x \in S, y \in T : x + y \notin Int64 THEN Int64
               ELSE {x + y : x \in S, y \in T}
sub64(S, T) == IF \E x \in S, y \in T : x - y \notin Int64 THEN Int64
               ELSE {x - y : x \in S, y \in T}

(* static_cast<uint64_t>(int64_t) *)
toUint64(i) == i % Pow2(Width("Double"))

INFINITE_DISTANCE == INT64_MAX

(* tolerances tried for m_ulps: small ones and the edges of the integer types *)
UlpsInputs == {0, 1, 2, 3, UINT32_MAX, UINT32_MAX + 1,
               INT64_MAX, INT64_MAX + 1, UINT64_MAX}


(* (x < 0) ? -EPSILON_0 : EPSILON_0 *)
EpsilonTowards(K, x) ==
    IF fpLT(K, x, 0) THEN fneg(K, denorm_min(K)) ELSE denorm_min(K)

(* the if-chain without its a == b case: C3 depends on that case *)
Branch_WithoutEqual(K, a, b) ==
    IF isnan(K, a) \/ isnan(K, b) THEN "nan"
    ELSE IF ~isfinite(K, a) \/ ~isfinite(K, b) THEN "infinite"
    ELSE IF fpGT(K, a, b) THEN "swap"
    ELSE IF fpEQ(K, a, 0) THEN "zero_a"
    ELSE IF fpEQ(K, b, 0) THEN "zero_b"
    ELSE IF fpLT(K, a, 0) # fpLT(K, b, 0) THEN "cross"
    ELSE IF fpLT(K, a, 0) THEN "negative"
    ELSE "subtract"

(* the if-chain of ulpDistance<FP>(a, b): the return statement it reaches *)
Branch(K, a, b) ==
    IF isnan(K, a) \/ isnan(K, b) THEN "nan"
    ELSE IF ~isfinite(K, a) \/ ~isfinite(K, b) THEN "infinite"
    ELSE IF fpGT(K, a, b) THEN "swap"
    ELSE IF fpEQ(K, a, b) THEN "equal"
    ELSE IF fpEQ(K, a, 0) THEN "zero_a"
    ELSE IF fpEQ(K, b, 0) THEN "zero_b"
    ELSE IF fpLT(K, a, 0) # fpLT(K, b, 0) THEN "cross"
    ELSE IF fpLT(K, a, 0) THEN "negative"
    ELSE "subtract"

(* the self-calls with the both-negative case negating its arguments       *)
(* without exchanging them: the depth bound of C8 depends on the exchange  *)
SelfCalls_NegatedInPlace(K, a, b) ==
    LET br == Branch(K, a, b)
    IN  IF br = "swap" THEN <<[a |-> b, b |-> a]>>
        ELSE IF br = "zero_a" THEN <<[a |-> EpsilonTowards(K, b), b |-> b]>>
        ELSE IF br = "zero_b" THEN <<[a |-> EpsilonTowards(K, a), b |-> a]>>
        ELSE IF br = "cross" THEN <<[a |-> EpsilonTowards(K, b), b |-> b],
                                    [a |-> EpsilonTowards(K, a), b |-> a]>>
        ELSE IF br = "negative" THEN <<[a |-> fneg(K, a), b |-> fneg(K, b)]>>
        ELSE <<>>

(* the arguments of the self-calls each return statement makes, in order *)
SelfCalls(K, a, b) ==
    LET br == Branch(K, a, b)
    IN  IF br = "swap" THEN <<[a |-> b, b |-> a]>>
        ELSE IF br = "zero_a" THEN <<[a |-> EpsilonTowards(K, b), b |-> b]>>
        ELSE IF br = "zero_b" THEN <<[a |-> EpsilonTowards(K, a), b |-> a]>>
        ELSE IF br = "cross" THEN <<[a |-> EpsilonTowards(K, b), b |-> b],
                                    [a |-> EpsilonTowards(K, a), b |-> a]>>
        ELSE IF br = "negative" THEN <<[a |-> fneg(K, b), b |-> fneg(K, a)]>>
        ELSE <<>>

(***************************************************************************)
(* the value each return statement computes from the results of its        *)
(* self-calls: the set of values it can return                             *)
(***************************************************************************)
Combine(K, a, b, results) ==
    LET br == Branch(K, a, b)
    IN  IF br \in {"nan", "infinite"} THEN {INFINITE_DISTANCE}
        ELSE IF br = "swap" THEN neg64(results[1])
        ELSE IF br = "equal" THEN {0}
        ELSE IF br \in {"zero_a", "zero_b"} THEN add64({1}, abs64(results[1]))
        ELSE IF br = "cross"
             THEN add64(add64({2}, abs64(results[1])), abs64(results[2]))
        ELSE IF br = "negative" THEN results[1]
        ELSE sub64({convert(K, b)}, {convert(K, a)})

(***************************************************************************)
(* ulpDistance<FP>(a, b): the set of values the call can return.           *)
(***************************************************************************)
RECURSIVE ulpDistance(_, _, _)
ulpDistance(K, a, b) ==
    LET calls == SelfCalls(K, a, b)
    IN  Combine(K, a, b, [i \in 1 .. Len(calls) |->
                              ulpDistance(K, calls[i].a, calls[i].b)])

(* almostEqualUlps without its two early returns: C4 depends on them *)
almostEqualUlps_DistanceOnly(K, lhs, rhs, maxUlpDiff) ==
    {toUint64(ulpDiff) <= maxUlpDiff :
         ulpDiff \in abs64(ulpDistance(K, lhs, rhs))}

(* almostEqualUlps<FP>(lhs, rhs, maxUlpDiff): the set of possible verdicts *)
almostEqualUlps(K, lhs, rhs, maxUlpDiff) ==
    IF isnan(K, lhs) \/ isnan(K, rhs) THEN {FALSE}
    ELSE IF ~isfinite(K, lhs) \/ ~isfinite(K, rhs) THEN {fpEQ(K, lhs, rhs)}
    ELSE {toUint64(ulpDiff) <= maxUlpDiff :
              ulpDiff \in abs64(ulpDistance(K, lhs, rhs))}

(* std::nextafter(x, y) *)
nextafter(K, x, y) ==
    IF isnan(K, x) \/ isnan(K, y) THEN QNaN(K)
    ELSE IF fpEQ(K, x, y) THEN y
    ELSE IF Mag(K, x) = 0
         THEN (IF fpLT(K, x, y) THEN denorm_min(K) ELSE fneg(K, denorm_min(K)))
    ELSE IF fpLT(K, x, y) = (Sign(K, x) = 0) THEN x + 1
    ELSE x - 1

(***************************************************************************)
(* step<FP>(start, direction, steps): the loop applies std::nextafter      *)
(* steps times.  StepTrace is the sequence of the values of start before   *)
(* every iteration and after the last; it runs the loop as the first half  *)
(* of the iterations followed by the rest, over the tabulated nextafter.   *)
(* StepTable keeps the trace of the longest loop for every start and the   *)
(* two directions describe passes.                                         *)
(***************************************************************************)
StepArgs == UNION {{<<K, x, d>> : x \in Patterns(K),
                                 d \in {INFINITY(K), fneg(K, INFINITY(K))}} :
                   K \in FloatingPointKind}
NextAfterTable == [q \in StepArgs |-> nextafter(q[1], q[2], q[3])] @@ <<>>

RECURSIVE StepTrace(_, _, _, _)
StepTrace(K, start, direction, steps) ==
    IF steps = 0 THEN <<start>>
    ELSE IF steps = 1 THEN <<start, NextAfterTable[<<K, start, direction>>]>>
    ELSE LET first == StepTrace(K, start, direction, steps \div 2)
             rest == StepTrace(K, first[Len(first)], direction, steps - steps \div 2)
         IN  first \o Tail(rest)

StepTable == [q \in StepArgs |-> StepTrace(q[1], q[2], q[3], UINT64_MAX)] @@ <<>>
step(K, start, direction, steps) == StepTable[<<K, start, direction>>][steps + 1]

(* marginComparison(lhs, rhs, margin) *)
marginComparison(lhs, rhs, margin) ==
    /\ fpGE("Double", fadd(lhs, margin), rhs)
    /\ fpGE("Double", fadd(rhs, margin), lhs)

(***************************************************************************)
(* The matchers.  A matcher object is a record of its members.             *)
(***************************************************************************)
NoMatcher == [kind |-> "None"]

WithinAbsMatcher_match(m, matchee) ==
    /\ fpGE("Double", fadd(matchee, m.m_margin), m.m_target)
    /\ fpGE("Double", fadd(m.m_target, m.m_margin), matchee)

(* match with every non-finite relMargin replaced by 0, NaN included: C7   *)
(* depends on the NaN of 0 * infinity reaching marginComparison            *)
WithinRelMatcher_match_ClampsNaN(m, matchee) ==
    LET relMargin == fmul(m.m_epsilon,
                          fmax(fabs("Double", matchee), fabs("Double", m.m_target)))
    IN  marginComparison(matchee, m.m_target,
                         IF ~isfinite("Double", relMargin) THEN 0 ELSE relMargin)

WithinRelMatcher_match(m, matchee) ==
    LET relMargin == fmul(m.m_epsilon,
                          fmax(fabs("Double", matchee), fabs("Double", m.m_target)))
    IN  marginComparison(matchee, m.m_target,
                         IF isinf("Double", relMargin) THEN 0 ELSE relMargin)

WithinUlpsMatcher_match(m, matchee) ==
    IF m.m_type = "Float"
    THEN almostEqualUlps("Float", toFloat(matchee), toFloat(m.m_target), m.m_ulps)
    ELSE almostEqualUlps("Double", matchee, m.m_target, m.m_ulps)

(* the values WithinUlpsMatcher::describe writes: target and both bounds *)
WithinUlpsMatcher_describe(m) ==
    IF m.m_type = "Double"
    THEN [type   |-> "Double",
          target |-> m.m_target,
          lower  |-> step("Double", m.m_target, fneg("Double", INFINITY("Double")), m.m_ulps),
          upper  |-> step("Double", m.m_target, INFINITY("Double"), m.m_ulps)]
    ELSE [type   |-> "Float",
          target |-> toFloat(m.m_target),
          lower  |-> step("Float", toFloat(m.m_target), fneg("Float", INFINITY("Float")), m.m_ulps),
          upper  |-> step("Float", toFloat(m.m_target), INFINITY("Float"), m.m_ulps)]

(***************************************************************************)
(* State.                                                                  *)
(*  matcher      the constructed matcher object, NoMatcher before          *)
(*  request      the arguments of the factory call that was made           *)
(*  thrown       CATCH_ENFORCE threw in the constructor                    *)
(*  matched, matchee, verdict   the last match() call and its result       *)
(*  description  the values of the last describe() call                    *)
(*  call         the arguments of a top-level ulpDistance call             *)
(*  stack        its activation records, the running one last              *)
(*  returned, dist   whether it has returned, and the values it can return *)
(***************************************************************************)
VARIABLES matcher, request, thrown, matched, matchee, verdict, description,
          call, stack, returned, dist

mvars == <<matcher, request, thrown, matched, matchee, verdict, description>>
dvars == <<call, stack, returned, dist>>
vars == <<mvars, dvars>>

NoRequest == [ctor |-> "none"]
NoDescription == [type |-> "None"]
NoCall == [K |-> "None"]

(* the conditions CATCH_ENFORCE checks in the three constructors *)
MarginEnforce(margin) == fpGE("Double", margin, 0)
(* the epsilon check with 1 allowed: C5 depends on the strict comparison *)
EpsilonEnforce_Inclusive(epsilon) ==
    /\ fpGE("Double", epsilon, 0)
    /\ fpGE("Double", One("Double"), epsilon)
EpsilonEnforce(epsilon) ==
    /\ fpGE("Double", epsilon, 0)
    /\ fpLT("Double", epsilon, One("Double"))
UlpsEnforce(type, ulps) == type = "Double" \/ ulps <= UINT32_MAX

Construct(req, ok, obj) ==
    /\ request' = req
    /\ thrown' = ~ok
    /\ matcher' = IF ok THEN obj ELSE NoMatcher
    /\ UNCHANGED <<matched, matchee, verdict, description, dvars>>

Unconstructed == matcher = NoMatcher /\ ~thrown /\ call = NoCall

(* WithinAbs(double target, double margin) *)
WithinAbs ==
    /\ Unconstructed
    /\ \E target, margin \in Patterns("Double") :
         Construct([ctor |-> "WithinAbs", target |-> target, param |-> margin],
                   MarginEnforce(margin),
                   [kind |-> "Abs", m_target |-> target, m_margin |-> margin])

(* WithinRel(double target, double eps) *)
WithinRel ==
    /\ Unconstructed
    /\ \E target, eps \in Patterns("Double") :
         Construct([ctor |-> "WithinRel", target |-> target, param |-> eps],
                   EpsilonEnforce(eps),
                   [kind |-> "Rel", m_target |-> target, m_epsilon |-> eps])

(* WithinULP(double target, uint64_t maxUlpDiff) *)
WithinULP_double ==
    /\ Unconstructed
    /\ \E target \in Patterns("Double"), maxUlpDiff \in UlpsInputs :
         Construct([ctor |-> "WithinULP", type |-> "Double", target |-> target,
                    param |-> maxUlpDiff],
                   UlpsEnforce("Double", maxUlpDiff),
                   [kind |-> "Ulps", m_target |-> target, m_ulps |-> maxUlpDiff,
                    m_type |-> "Double"])

(* WithinULP(float target, uint64_t maxUlpDiff) *)
WithinULP_float ==
    /\ Unconstructed
    /\ \E target \in Patterns("Float"), maxUlpDiff \in UlpsInputs :
         Construct([ctor |-> "WithinULP", type |-> "Float",
                    target |-> toDouble(target), param |-> maxUlpDiff],
                   UlpsEnforce("Float", maxUlpDiff),
                   [kind |-> "Ulps", m_target |-> toDouble(target),
                    m_ulps |-> maxUlpDiff, m_type |-> "Float"])

(***************************************************************************)
(* One assertion constructs its matcher, calls match() on the argument     *)
(* once and then may call describe() to report.                            *)
(***************************************************************************)
Match(candidate, result) ==
    /\ matched' = TRUE
    /\ matchee' = candidate
    /\ verdict' = result
    /\ UNCHANGED <<matcher, request, thrown, description, dvars>>

MatchAbs ==
    /\ matcher.kind = "Abs"
    /\ ~matched
    /\ \E candidate \in Patterns("Double") :
         Match(candidate, WithinAbsMatcher_match(matcher, candidate))

MatchRel ==
    /\ matcher.kind = "Rel"
    /\ ~matched
    /\ \E candidate \in Patterns("Double") :
         Match(candidate, WithinRelMatcher_match(matcher, candidate))

MatchUlps ==
    /\ matcher.kind = "Ulps"
    /\ ~matched
    /\ \E candidate \in Patterns("Double") :
         \E v \in WithinUlpsMatcher_match(matcher, candidate) :
             Match(candidate, v)

DescribeUlps ==
    /\ matcher.kind = "Ulps"
    /\ matched
    /\ description = NoDescription
    /\ description' = WithinUlpsMatcher_describe(matcher)
    /\ UNCHANGED <<matcher, request, thrown, matched, matchee, verdict, dvars>>

MatcherInit ==
    /\ matcher = NoMatcher
    /\ request = NoRequest
    /\ thrown = FALSE
    /\ matched = FALSE
    /\ matchee = 0
    /\ verdict = FALSE
    /\ description = NoDescription

DistIdle ==
    /\ call = NoCall
    /\ stack = <<>>
    /\ returned = FALSE
    /\ dist = {}

Init == MatcherInit /\ DistIdle

(* The matchers share no state with each other or with a direct call of    *)
(* ulpDistance, so each is also specified alone: the constructors, then    *)
(* each matcher, then the call.                                            *)
NextConstruct == WithinAbs \/ WithinRel \/ WithinULP_double \/ WithinULP_float
SpecConstruct == Init /\ [][NextConstruct]_vars

NextAbs == WithinAbs \/ MatchAbs
SpecAbs == Init /\ [][NextAbs]_vars

NextRel == WithinRel \/ MatchRel
SpecRel == Init /\ [][NextRel]_vars

NextUlps == WithinULP_double \/ WithinULP_float \/ MatchUlps \/ DescribeUlps
SpecUlps == Init /\ [][NextUlps]_vars

(* the ULP matcher for float alone *)
NextUlpsFloat == WithinULP_float \/ MatchUlps \/ DescribeUlps
SpecUlpsFloat == Init /\ [][NextUlpsFloat]_vars

(***************************************************************************)
(* One call of ulpDistance<FP>, activation record by activation record.    *)
(* A record holds the arguments, the results of the self-calls that have   *)
(* returned ({} for one that has not) and the self-call it is waiting for  *)
(* (0 for none).  The two self-calls of the sign-crossing return statement *)
(* are operands of one +, so they run in either order.                     *)
(***************************************************************************)
Frame(K, a, b) ==
    [a |-> a, b |-> b, pending |-> 0,
     results |-> [i \in 1 .. Len(SelfCalls(K, a, b)) |-> {}]]

Top == stack[Len(stack)]

Running == stack # <<>> /\ Top.pending = 0

(* the running record reaches a return statement and makes one of its      *)
(* self-calls                                                              *)
SelfCall ==
    /\ Running
    /\ \E i \in DOMAIN Top.results :
         /\ Top.results[i] = {}
         /\ \E args \in {SelfCalls(call.K, Top.a, Top.b)[i]} :
              stack' = Append([stack EXCEPT ![Len(stack)].pending = i],
                              Frame(call.K, args.a, args.b))
    /\ UNCHANGED <<call, returned, dist, mvars>>

(* the running record returns, to its caller or out of the top-level call *)
Return ==
    /\ Running
    /\ \A i \in DOMAIN Top.results : Top.results[i] # {}
    /\ \E value \in {Combine(call.K, Top.a, Top.b, Top.results)} :
       \E n \in {Len(stack) - 1} :
         IF n = 0
         THEN /\ stack' = <<>>
              /\ returned' = TRUE
              /\ dist' = value
         ELSE /\ stack' = [SubSeq(stack, 1, n) EXCEPT
                              ![n].results[stack[n].pending] = value,
                              ![n].pending = 0]
              /\ UNCHANGED <<returned, dist>>
    /\ UNCHANGED <<call, mvars>>

Step == SelfCall \/ Return

(* ulpDistance<FP>(a, b) has just been called, on any two arguments of     *)
(* either width                                                            *)
Called ==
    /\ \E K \in FloatingPointKind : \E a, b \in Patterns(K) :
         /\ call = [K |-> K, a |-> a, b |-> b]
         /\ stack = <<Frame(K, a, b)>>
    /\ returned = FALSE
    /\ dist = {}

InitDist == MatcherInit /\ Called

SpecDist == InitDist /\ [][Step]_vars

(* a call that can take a step takes it *)
SpecDistFair == SpecDist /\ WF_vars(Step)

(* a test makes the call directly, when it is not in a matcher assertion *)
TopLevelCall ==
    /\ call = NoCall
    /\ Unconstructed
    /\ \E K \in FloatingPointKind : \E a, b \in Patterns(K) :
         /\ call' = [K |-> K, a |-> a, b |-> b]
         /\ stack' = <<Frame(K, a, b)>>
    /\ UNCHANGED <<returned, dist, mvars>>

(* the whole translation unit *)
Next ==
    \/ WithinAbs
    \/ WithinRel
    \/ WithinULP_double
    \/ WithinULP_float
    \/ MatchAbs
    \/ MatchRel
    \/ MatchUlps
    \/ DescribeUlps
    \/ TopLevelCall
    \/ SelfCall
    \/ Return

Spec == Init /\ [][Next]_vars

(***************************************************************************)
(*                              Properties                                 *)
(***************************************************************************)

(* The position of a finite value on the line of representable values,     *)
(* with the two zeros at 0: the number of representable steps from a to b  *)
(* is the difference of their positions.                                   *)
Ordinal(K, x) == IF Sign(K, x) = 1 THEN -fabs(K, x) ELSE x
TrueSteps(K, a, b) == Ordinal(K, b) - Ordinal(K, a)

(* a top-level ulpDistance call on finite arguments has returned *)
ReturnedFinite ==
    /\ returned
    /\ isfinite(call.K, call.a)
    /\ isfinite(call.K, call.b)

(* match() of a ULP matcher has run on a candidate of the matcher's width; *)
(* Cand and Targ are the two values almostEqualUlps<FP> is called with     *)
UlpsMatched ==
    /\ matcher.kind = "Ulps"
    /\ matched
    /\ (matcher.m_type = "Double" \/ isnan("Double", matchee)
        \/ toDouble(toFloat(matchee)) = matchee)
Cand == IF matcher.m_type = "Float" THEN toFloat(matchee) ELSE matchee
Targ == IF matcher.m_type = "Float" THEN toFloat(matcher.m_target) ELSE matcher.m_target

(* C1: for a finite target a and a candidate k steps of nextafter above it *)
(* that is still finite, ulpDistance(a, candidate) is k and the matcher    *)
(* built with tolerance n matches exactly when k <= n.                     *)
C1_StepsAreDistance ==
    UlpsMatched /\ isfinite(matcher.m_type, Targ) /\ isfinite(matcher.m_type, Cand) =>
        \A k \in 0 .. UINT64_MAX :
            Cand = step(matcher.m_type, Targ, INFINITY(matcher.m_type), k) =>
                /\ ulpDistance(matcher.m_type, Targ, Cand) = {k}
                /\ verdict <=> k <= matcher.m_ulps

(* C2: for finite a and b, ulpDistance(a, b) = -ulpDistance(b, a).         *)
C2_Antisymmetry ==
    ReturnedFinite =>
        \A r \in dist, q \in ulpDistance(call.K, call.b, call.a) : r = -q

(* C3: for finite a and b that compare equal, the two zeros included,      *)
(* ulpDistance(a, b) = 0.                                                  *)
C3_EqualIsZero ==
    ReturnedFinite /\ Val(call.K, call.a) = Val(call.K, call.b) => dist = {0}

(* C3 witness: the call on -0.0 and +0.0 returned 0 *)
C3_SignedZeros ==
    /\ returned
    /\ call.a = SignBit(call.K)
    /\ call.b = 0
    /\ dist = {0}

(* C4: whatever the tolerance, the ULP matcher's verdict is false when the *)
(* candidate or the target is NaN, and, when one of them is an infinity    *)
(* and neither is NaN, true exactly when both are the same infinity.       *)
C4_NonFiniteVerdict ==
    UlpsMatched =>
        /\ isnan(matcher.m_type, Cand) \/ isnan(matcher.m_type, Targ) => ~verdict
        /\ /\ ~isnan(matcher.m_type, Cand)
           /\ ~isnan(matcher.m_type, Targ)
           /\ isinf(matcher.m_type, Cand) \/ isinf(matcher.m_type, Targ)
           => (verdict <=> Cand = Targ)

(* C4 witness: with the largest tolerance, a finite candidate was matched  *)
(* against an infinite target and rejected                                 *)
C4_FiniteAgainstInfinity ==
    /\ UlpsMatched
    /\ matcher.m_ulps = UINT64_MAX
    /\ isinf(matcher.m_type, Targ)
    /\ isfinite(matcher.m_type, Cand)
    /\ ~verdict

(* C5 as stated: a constructor fails exactly when margin < 0, epsilon < 0  *)
(* or epsilon >= 1, or the type is float and ulps > UINT32_MAX.            *)
C5_FailsIffOutOfRange ==
    /\ request.ctor = "WithinAbs" =>
           (thrown <=> fpLT("Double", request.param, 0))
    /\ request.ctor = "WithinRel" =>
           (thrown <=> (fpLT("Double", request.param, 0)
                        \/ fpGE("Double", request.param, One("Double"))))
    /\ request.ctor = "WithinULP" =>
           (thrown <=> (request.type = "Float" /\ request.param > UINT32_MAX))

(* C5 amended: a constructor fails exactly when margin is negative or NaN, *)
(* epsilon is negative, at least 1 or NaN, or the type is float and ulps > *)
(* UINT32_MAX; a matcher exists exactly when it did not fail, and then its *)
(* margin is >= 0, its epsilon in [0, 1), its ulps within the type.        *)
C5_FailsIffNotInRange ==
    /\ request.ctor = "WithinAbs" =>
           (thrown <=> (isnan("Double", request.param)
                        \/ Val("Double", request.param) < 0))
    /\ request.ctor = "WithinRel" =>
           (thrown <=> (isnan("Double", request.param)
                        \/ Val("Double", request.param) < 0
                        \/ Val("Double", request.param) >= Val("Double", One("Double"))))
    /\ request.ctor = "WithinULP" =>
           (thrown <=> (request.type = "Float" /\ request.param > UINT32_MAX))
    /\ request.ctor # "none" => (thrown <=> matcher = NoMatcher)
    /\ matcher.kind = "Abs" =>
           ~isnan("Double", matcher.m_margin) /\ Val("Double", matcher.m_margin) >= 0
    /\ matcher.kind = "Rel" =>
           /\ ~isnan("Double", matcher.m_epsilon)
           /\ Val("Double", matcher.m_epsilon) >= 0
           /\ Val("Double", matcher.m_epsilon) < Val("Double", One("Double"))
    /\ matcher.kind = "Ulps" =>
           matcher.m_type = "Double" \/ matcher.m_ulps <= UINT32_MAX

(* C5 witness: WithinAbs was called with a NaN margin and threw *)
C5_NaNMarginRejected ==
    /\ request.ctor = "WithinAbs"
    /\ isnan("Double", request.param)
    /\ thrown

(* C6: WithinAbs matches exactly when |candidate - target| <= margin for   *)
(* finite candidate, target and margin, and, for an infinite target and a  *)
(* finite margin, exactly when the candidate is that same infinity.        *)
C6_MarginIsDistance ==
    matcher.kind = "Abs" /\ matched =>
        /\ /\ isfinite("Double", matchee)
           /\ isfinite("Double", matcher.m_target)
           /\ isfinite("Double", matcher.m_margin)
           => (verdict <=> Abs(Val("Double", matchee) - Val("Double", matcher.m_target))
                               <= Val("Double", matcher.m_margin))
        /\ isinf("Double", matcher.m_target) /\ isfinite("Double", matcher.m_margin)
           => (verdict <=> matchee = matcher.m_target)

(* C7 as stated: with epsilon = 0.0, WithinRel matches exactly when the    *)
(* candidate has the bit pattern of the target.                            *)
C7_BitExact ==
    matcher.kind = "Rel" /\ matched /\ matcher.m_epsilon = 0 =>
        (verdict <=> matchee = matcher.m_target)

(* C7 amended: with epsilon = 0.0, WithinRel matches exactly when          *)
(* candidate and target are both finite and compare equal.                 *)
C7_FiniteAndEqual ==
    matcher.kind = "Rel" /\ matched /\ matcher.m_epsilon = 0 =>
        (verdict <=> /\ isfinite("Double", matchee)
                     /\ isfinite("Double", matcher.m_target)
                     /\ Val("Double", matchee) = Val("Double", matcher.m_target))

(* C7 witness: with epsilon = 0.0, -0.0 was matched against +0.0 and       *)
(* accepted                                                                *)
C7_ZerosMatch ==
    /\ matcher.kind = "Rel"
    /\ matched
    /\ matcher.m_epsilon = 0
    /\ matcher.m_target = 0
    /\ matchee = SignBit("Double")
    /\ verdict

(* C8: every call of ulpDistance returns; never more than 5 activation     *)
(* records are live, whatever the magnitudes; and a record that returns    *)
(* without a self-call is an early-out (an argument is not finite), the    *)
(* a == b case, or the subtraction of 0 < a < b.                           *)
C8_BoundedRecursion ==
    /\ (call # NoCall) ~> returned
    /\ [](Len(stack) <= 5)
    /\ [][Len(stack') < Len(stack) /\ Top.results = <<>> =>
            \/ ~isfinite(call.K, Top.a) \/ ~isfinite(call.K, Top.b)
            \/ Val(call.K, Top.a) = Val(call.K, Top.b)
            \/ 0 < Val(call.K, Top.a) /\ Val(call.K, Top.a) < Val(call.K, Top.b)]_vars

(* C8 witness: 5 activation records are live *)
C8_DeepestChain == Len(stack) = 5

(* C9: for finite a and b of either width the result is the number of      *)
(* representable steps from a to b, computed without overflow, and never   *)
(* the sentinel INFINITE_DISTANCE.                                         *)
C9_ExactWithoutOverflow ==
    ReturnedFinite =>
        /\ dist = {TrueSteps(call.K, call.a, call.b)}
        /\ INFINITE_DISTANCE \notin dist

(* C10: for a finite target and a candidate that is not NaN, the ULP       *)
(* matcher matches exactly when the candidate lies in the interval         *)
(* [lower, upper] that describe() renders.                                 *)
C10_IntervalIsMatchSet ==
    /\ UlpsMatched
    /\ description # NoDescription
    /\ isfinite(matcher.m_type, Targ)
    /\ ~isnan(matcher.m_type, Cand)
    => (verdict <=> /\ Val(matcher.m_type, description.lower) <= Val(matcher.m_type, Cand)
                    /\ Val(matcher.m_type, Cand) <= Val(matcher.m_type, description.upper))

=============================================================================
